---- MODULE Spec2Model ----
(***************************************************************************)
(* State-machine model of the AiRoyalties_FHE contract: encrypted          *)
(* contributions, the oracle request/callback correlation maps, the        *)
(* share/payment arithmetic and the claim settlement.                      *)
(*                                                                         *)
(* An encrypted value (euint32 / ebool) is modelled as a handle record     *)
(* [init, val]: init = FALSE is the zero handle of an unwritten storage    *)
(* slot, val is the plaintext the oracle would reveal.  A Solidity mapping *)
(* is a total function whose unwritten entries hold the zero value; the    *)
(* zero handle decrypts to the zero value, as claimRoyalty relies on when  *)
(* it reads the isClaimed flag of a key that has no Distribution.  The     *)
(* oracle may answer any issued request, any number of times, in any       *)
(* order, with a proof that verifies or one that does not.  A              *)
(* reverted transaction leaves the contract state unchanged; its revert    *)
(* reason is what the ...Outcome operators compute from the state and the  *)
(* call's inputs.  Events change no state and are left out.  depositSum   *)
(* is a history variable: the sum of the amounts deposited so far.         *)
(***************************************************************************)
EXTENDS Integers, Sequences, FiniteSets, TLC

\* ------------------------------------------------------------------ bounds
MaxContrib == 2
MaxReq == 2
MaxDeposits == 1

\* ------------------------------------------------------- input alphabets
\* bytes32 contributor hashes; 0 is bytes32(0)
Keys == {0, 1}
\* plaintexts of the three encrypted metrics a submitter may send (the
\* arithmetic over a range of metrics is exercised by SpecFormula below)
MetricChoices == { <<100, 80, 60>> }
\* msg.value of a deposit
DepositAmounts == {0, 1000}
\* deposits are accepted while the pool stays within MaxDeposits full deposits
PoolCap == MaxDeposits * 1000
\* block.timestamp values
Timestamps == {1}

ContribIds == 0..MaxContrib
ReqIds == 1..MaxReq

\* --------------------------------------------------------------- handles
NoHandle == [init |-> FALSE, val |-> 0]
NoBoolHandle == [init |-> FALSE, val |-> FALSE]
asEuint32(v) == [init |-> TRUE, val |-> v]
asEbool(b) == [init |-> TRUE, val |-> b]
\* plaintext behind a handle; the zero handle reveals the zero value
decrypt(h) == h.val

\* ------------------------------------------------- checked uint32 arithmetic
\* A uint32 intermediate is held as two 16-bit limbs <<hi, lo>> so that the
\* whole 32-bit range is covered; a hi limb of 65536 or more is an overflow.
Limb == 2^16
MulLimbs(x, k) ==
    LET lo0 == (x % Limb) * k
    IN  << (x \div Limb) * k + (lo0 \div Limb), lo0 % Limb >>
AddLimbs(a, b) ==
    LET lo0 == a[2] + b[2]
    IN  << a[1] + b[1] + (lo0 \div Limb), lo0 % Limb >>
Overflows32(a) == a[1] >= Limb
DivLimbs(a, d) ==
    ((a[1] \div d) * Limb) + ((((a[1] % d) * Limb) + a[2]) \div d)

WeightedSum(computeHours, dataQuality, modelImpact) ==
    AddLimbs(AddLimbs(MulLimbs(computeHours, 40), MulLimbs(dataQuality, 35)),
             MulLimbs(modelImpact, 25))

\* TRUE when the checked uint32 arithmetic of calculateSharePercentage panics
ShareOverflows(computeHours, dataQuality, modelImpact) ==
    \/ Overflows32(MulLimbs(computeHours, 40))
    \/ Overflows32(MulLimbs(dataQuality, 35))
    \/ Overflows32(AddLimbs(MulLimbs(computeHours, 40), MulLimbs(dataQuality, 35)))
    \/ Overflows32(MulLimbs(modelImpact, 25))
    \/ Overflows32(WeightedSum(computeHours, dataQuality, modelImpact))

\* mutant: the weights of computeHours and dataQuality exchanged
calculateSharePercentageSwapped(computeHours, dataQuality, modelImpact) ==
    DivLimbs(WeightedSum(dataQuality, computeHours, modelImpact), 100)

calculateSharePercentage(computeHours, dataQuality, modelImpact) ==
    DivLimbs(WeightedSum(computeHours, dataQuality, modelImpact), 100)

\* ------------------------------------------------------ uint256 payments
\* A payment is held as four 16-bit limbs, least significant first, so that
\* values of 2^32 and more are covered. Wide(n) is the number n in that form.
Wide(n) == << n % Limb, n \div Limb, 0, 0 >>
\* the zero handle in a payment field: it reveals the payment 0
NoPaymentHandle == [init |-> FALSE, val |-> Wide(0)]

\* a * b for two limbs a, b, as << high limb, low limb >>
MulLimb(a, b) ==
    LET t0 == a * (b % 256)
        t1 == a * (b \div 256)
        lo0 == (t0 % Limb) + ((t1 % 256) * 256)
    IN  << (t0 \div Limb) + (t1 \div 256) + (lo0 \div Limb), lo0 % Limb >>

\* x * y in four limbs
WideProduct(x, y) ==
    LET m00 == MulLimb(x % Limb, y % Limb)
        m01 == MulLimb(x % Limb, y \div Limb)
        m10 == MulLimb(x \div Limb, y % Limb)
        m11 == MulLimb(x \div Limb, y \div Limb)
        c1 == m00[1] + m01[2] + m10[2]
        c2 == (c1 \div Limb) + m01[1] + m10[1] + m11[2]
    IN  << m00[2], c1 % Limb, c2 % Limb, (c2 \div Limb) + m11[1] >>

\* floor(w / d) for a four-limb w and a divisor d below 2^15
WideDiv(w, d) ==
    LET x3 == w[4]
        x2 == ((x3 % d) * Limb) + w[3]
        x1 == ((x2 % d) * Limb) + w[2]
        x0 == ((x1 % d) * Limb) + w[1]
    IN  << x0 \div d, x1 \div d, x2 \div d, x3 \div d >>

\* the explicit cast uint32(x): the two low limbs of x
toUint32(x) == << x[1], x[2], 0, 0 >>

\* uint256 payment = (totalRewardPool * share) / 10000
PaymentOf(pool, share) ==
    CHOOSE payment \in { WideDiv(product, 10000) :
                            product \in { WideProduct(pool, share) } } : TRUE

\* ----------------------------------------------------------------- state
VARIABLES
    contributionCount,        \* uint256 contributionCount
    totalRewardPool,          \* uint256 totalRewardPool
    contributions,            \* mapping(uint256 => EncryptedContribution)
    royaltyDistributions,     \* mapping(bytes32 => RoyaltyDistribution)
    decryptedRoyalties,       \* mapping(uint256 => DecryptedRoyalty)
    requestToContributionId,  \* mapping(uint256 => uint256)
    requestToContributorHash, \* mapping(uint256 => bytes32)
    requestCounter,           \* number of decryption requests issued so far
    requestedHandles,         \* per request id, the handles sent to the oracle
    depositSum,               \* history: sum of the deposited amounts
    \* the web front-end (App.tsx) and the key-value store it keeps its records in
    storedData,               \* getData/setData("contribution_<id>"): stored status
    contributionKeys,         \* getData/setData("contribution_keys"): list of ids
    clientList,               \* per client, its React state "contributions"
    clientOp                  \* per client, the async function it is running

frontVars == << storedData, contributionKeys, clientList, clientOp >>

vars ==
    << contributionCount, totalRewardPool, contributions, royaltyDistributions,
       decryptedRoyalties, requestToContributionId, requestToContributorHash,
       requestCounter, requestedHandles, depositSum, frontVars >>

contractVars ==
    << contributionCount, totalRewardPool, contributions, royaltyDistributions,
       decryptedRoyalties, requestToContributionId, requestToContributorHash >>

oracleVars == << requestCounter, requestedHandles >>

NoContribution ==
    [ id |-> 0, encryptedComputeHours |-> NoHandle, encryptedDataQuality |-> NoHandle,
      encryptedModelImpact |-> NoHandle, timestamp |-> 0, contributorHash |-> 0 ]
NoDistribution ==
    [ encryptedShare |-> NoHandle, encryptedPaymentAmount |-> NoPaymentHandle,
      isClaimed |-> NoBoolHandle ]
NoRoyalty == [ sharePercentage |-> 0, paymentAmount |-> Wide(0), isRevealed |-> FALSE ]

\* ------------------------------------------------------------ front-end
\* browser sessions of the owner, and the ids submitContribution can generate
Clients == {1, 2}
FrontIds == {1, 2}

\* no record stored / not in the list
NoList == [i \in FrontIds |-> "none"]
\* a client that runs no async function
Idle == [pc |-> "idle", id |-> 0, keys |-> << >>, list |-> NoList]

FrontInit ==
    /\ storedData = [i \in FrontIds |-> "none"]
    /\ contributionKeys = << >>
    /\ clientList = [c \in Clients |-> NoList]
    /\ clientOp = [c \in Clients |-> Idle]

Init ==
    /\ contributionCount = 0
    /\ totalRewardPool = 0
    /\ contributions = [i \in ContribIds |-> NoContribution]
    /\ royaltyDistributions = [k \in Keys |-> NoDistribution]
    /\ decryptedRoyalties = [i \in ContribIds |-> NoRoyalty]
    /\ requestToContributionId = [r \in ReqIds |-> 0]
    /\ requestToContributorHash = [r \in ReqIds |-> 0]
    /\ requestCounter = 0
    /\ requestedHandles = [r \in ReqIds |-> << >>]
    /\ depositSum = 0
    /\ FrontInit

\* ------------------------------------------------------------- operations
\* mutant: the pool is assigned the deposit instead of being increased by it
depositRewardPoolAssign(amount) ==
    /\ totalRewardPool + amount <= PoolCap
    /\ totalRewardPool' = amount
    /\ depositSum' = depositSum + amount
    /\ UNCHANGED << contributionCount, contributions, royaltyDistributions,
                    decryptedRoyalties, requestToContributionId,
                    requestToContributorHash, oracleVars, frontVars >>

depositRewardPool(amount) ==
    /\ totalRewardPool + amount <= PoolCap
    /\ totalRewardPool' = totalRewardPool + amount
    /\ depositSum' = depositSum + amount
    /\ UNCHANGED << contributionCount, contributions, royaltyDistributions,
                    decryptedRoyalties, requestToContributionId,
                    requestToContributorHash, oracleVars, frontVars >>

\* mutant: the record is stored over the latest record instead of in a new slot
submitEncryptedContributionOverwrite(metrics, contributorHash, now) ==
    /\ contributionCount < MaxContrib
    /\ LET newId == IF contributionCount = 0 THEN 1 ELSE contributionCount
       IN  /\ contributionCount' = contributionCount + 1
           /\ contributions' =
                [contributions EXCEPT ![newId] =
                    [ id |-> newId,
                      encryptedComputeHours |-> asEuint32(metrics[1]),
                      encryptedDataQuality |-> asEuint32(metrics[2]),
                      encryptedModelImpact |-> asEuint32(metrics[3]),
                      timestamp |-> now,
                      contributorHash |-> contributorHash ]]
    /\ UNCHANGED << totalRewardPool, royaltyDistributions, decryptedRoyalties,
                    requestToContributionId, requestToContributorHash,
                    oracleVars, depositSum, frontVars >>

\* mutant: the record is stored under the counter's value before the increment
submitEncryptedContributionStaleId(metrics, contributorHash, now) ==
    /\ contributionCount < MaxContrib
    /\ LET newId == contributionCount
       IN  /\ contributionCount' = contributionCount + 1
           /\ contributions' =
                [contributions EXCEPT ![newId] =
                    [ id |-> newId,
                      encryptedComputeHours |-> asEuint32(metrics[1]),
                      encryptedDataQuality |-> asEuint32(metrics[2]),
                      encryptedModelImpact |-> asEuint32(metrics[3]),
                      timestamp |-> now,
                      contributorHash |-> contributorHash ]]
    /\ UNCHANGED << totalRewardPool, royaltyDistributions, decryptedRoyalties,
                    requestToContributionId, requestToContributorHash,
                    oracleVars, depositSum, frontVars >>

submitEncryptedContribution(metrics, contributorHash, now) ==
    /\ contributionCount < MaxContrib
    /\ LET newId == contributionCount + 1
       IN  /\ contributionCount' = newId
           /\ contributions' =
                [contributions EXCEPT ![newId] =
                    [ id |-> newId,
                      encryptedComputeHours |-> asEuint32(metrics[1]),
                      encryptedDataQuality |-> asEuint32(metrics[2]),
                      encryptedModelImpact |-> asEuint32(metrics[3]),
                      timestamp |-> now,
                      contributorHash |-> contributorHash ]]
    /\ UNCHANGED << totalRewardPool, royaltyDistributions, decryptedRoyalties,
                    requestToContributionId, requestToContributorHash,
                    oracleVars, depositSum, frontVars >>

\* FHE.requestDecryption when the library answers with request id reqId: the
\* handles are remembered under that id
requestDecryptionReturning(ciphertexts, reqId) ==
    /\ requestCounter' = requestCounter + 1
    /\ requestedHandles' = [requestedHandles EXCEPT ![reqId] = ciphertexts]

\* FHE.requestDecryption: hands out the next request id and remembers the handles
requestDecryption(ciphertexts) ==
    requestDecryptionReturning(ciphertexts, requestCounter + 1)

\* calculateRoyaltyShare when FHE.requestDecryption answers with reqId
calculateRoyaltyShareGetting(contributionId, reqId) ==
    /\ requestCounter < MaxReq
    /\ LET contrib == contributions[contributionId]
       IN  /\ requestDecryptionReturning(<< contrib.encryptedComputeHours,
                                            contrib.encryptedDataQuality,
                                            contrib.encryptedModelImpact >>, reqId)
           /\ requestToContributionId' =
                [requestToContributionId EXCEPT ![reqId] = contributionId]
    /\ UNCHANGED << contributionCount, totalRewardPool, contributions,
                    royaltyDistributions, decryptedRoyalties,
                    requestToContributorHash, depositSum, frontVars >>

calculateRoyaltyShare(contributionId) ==
    calculateRoyaltyShareGetting(contributionId, requestCounter + 1)

\* mutant: the proof is not looked at
checkSignaturesSkipped(requestId, proofValid) ==
    requestedHandles[requestId] # << >>

\* FHE.checkSignatures: passes only for the oracle's signed decryption of the
\* handles of an issued request; otherwise it reverts
checkSignatures(requestId, proofValid) ==
    proofValid /\ requestedHandles[requestId] # << >>

\* the cleartexts a valid proof vouches for: the plaintexts of the request's handles
Cleartexts(requestId) ==
    [i \in DOMAIN requestedHandles[requestId] |-> decrypt(requestedHandles[requestId][i])]

\* mutant: the request id is not looked up before the callback proceeds
CalculationOutcomeNoLookup(requestId, proofValid) ==
    LET contributionId == requestToContributionId[requestId]
        contrib == contributions[contributionId]
        clear == Cleartexts(requestId)
    IN  IF decrypt(royaltyDistributions[contrib.contributorHash].isClaimed)
        THEN "Already processed"
        ELSE IF ~checkSignatures(requestId, proofValid) THEN "Invalid proof"
        ELSE IF Len(clear) < 3 THEN "Decode error"
        ELSE IF ShareOverflows(clear[1], clear[2], clear[3]) THEN "Panic"
        ELSE "ok"

\* mutant: a share of zero is refused as "nothing to distribute"
CalculationOutcomeRejectsZero(requestId, proofValid) ==
    LET contributionId == requestToContributionId[requestId]
        contrib == contributions[contributionId]
        clear == Cleartexts(requestId)
    IN  IF contributionId = 0 THEN "Invalid request"
        ELSE IF decrypt(royaltyDistributions[contrib.contributorHash].isClaimed)
             THEN "Already processed"
        ELSE IF ~checkSignatures(requestId, proofValid) THEN "Invalid proof"
        ELSE IF Len(clear) < 3 THEN "Decode error"
        ELSE IF ShareOverflows(clear[1], clear[2], clear[3]) THEN "Panic"
        ELSE IF calculateSharePercentage(clear[1], clear[2], clear[3]) = 0
             THEN "No share"
        ELSE "ok"

\* revert reason of processRoyaltyCalculation(requestId, ., proof), "ok" if none
CalculationOutcome(requestId, proofValid) ==
    LET contributionId == requestToContributionId[requestId]
        contrib == contributions[contributionId]
        clear == Cleartexts(requestId)
    IN  IF contributionId = 0 THEN "Invalid request"
        ELSE IF decrypt(royaltyDistributions[contrib.contributorHash].isClaimed)
             THEN "Already processed"
        ELSE IF ~checkSignatures(requestId, proofValid) THEN "Invalid proof"
        ELSE IF Len(clear) < 3 THEN "Decode error"
        ELSE IF ShareOverflows(clear[1], clear[2], clear[3]) THEN "Panic"
        ELSE "ok"

\* mutant: the payment is computed against the pool as it was before any
\* deposit, not against the pool passed in
CalculationWritesEmptyPool(cleartexts, pool) ==
    LET share == calculateSharePercentage(cleartexts[1], cleartexts[2], cleartexts[3])
        payment == PaymentOf(0, share)
    IN  [ distribution |->
              [ encryptedShare |-> asEuint32(share),
                encryptedPaymentAmount |-> asEuint32(toUint32(payment)),
                isClaimed |-> asEbool(FALSE) ],
          revealed |->
              [ sharePercentage |-> share,
                paymentAmount |-> payment,
                isRevealed |-> TRUE ] ]

\* mutant: the audit entry records the revealed computeHours instead of the share
CalculationWritesLeaky(cleartexts, pool) ==
    LET share == calculateSharePercentage(cleartexts[1], cleartexts[2], cleartexts[3])
        payment == PaymentOf(pool, share)
    IN  [ distribution |->
              [ encryptedShare |-> asEuint32(share),
                encryptedPaymentAmount |-> asEuint32(toUint32(payment)),
                isClaimed |-> asEbool(FALSE) ],
          revealed |->
              [ sharePercentage |-> cleartexts[1],
                paymentAmount |-> payment,
                isRevealed |-> TRUE ] ]

\* The two records a successful calculation callback stores, computed from the
\* decoded cleartexts and the pool: the Distribution of the contributor key and
\* the decryptedRoyalties entry of the contribution.
CalculationWrites(cleartexts, pool) ==
    CHOOSE writes \in
        { [ distribution |->
                [ encryptedShare |-> asEuint32(share),
                  encryptedPaymentAmount |-> asEuint32(toUint32(PaymentOf(pool, share))),
                  isClaimed |-> asEbool(FALSE) ],
            revealed |->
                [ sharePercentage |-> share,
                  paymentAmount |-> PaymentOf(pool, share),
                  isRevealed |-> TRUE ] ] :
          share \in { calculateSharePercentage(cleartexts[1], cleartexts[2],
                                                cleartexts[3]) } } : TRUE

processRoyaltyCalculation(requestId, proofValid) ==
    LET outcome == CalculationOutcome(requestId, proofValid)
        contributionId == requestToContributionId[requestId]
        contrib == contributions[contributionId]
    IN  /\ IF outcome = "ok"
           THEN \E clear \in { Cleartexts(requestId) } :
                \E writes \in { CalculationWrites(clear, totalRewardPool) } :
                    /\ royaltyDistributions' =
                         [royaltyDistributions EXCEPT ![contrib.contributorHash] =
                             writes.distribution]
                    /\ decryptedRoyalties' =
                         [decryptedRoyalties EXCEPT ![contributionId] =
                             writes.revealed]
           ELSE UNCHANGED << royaltyDistributions, decryptedRoyalties >>
        /\ UNCHANGED << contributionCount, totalRewardPool, contributions,
                        requestToContributionId, requestToContributorHash,
                        oracleVars, depositSum, frontVars >>

\* revert reason of claimRoyalty(contributorHash), "ok" if none
ClaimOutcome(contributorHash) ==
    IF decrypt(royaltyDistributions[contributorHash].isClaimed)
    THEN "Already claimed"
    ELSE "ok"

\* claimRoyalty when FHE.requestDecryption answers with reqId
claimRoyaltyGetting(contributorHash, reqId) ==
    /\ requestCounter < MaxReq
    /\ LET dist == royaltyDistributions[contributorHash]
       IN  IF ClaimOutcome(contributorHash) = "ok"
           THEN /\ requestDecryptionReturning(<< dist.encryptedPaymentAmount >>, reqId)
                /\ requestToContributorHash' =
                     [requestToContributorHash EXCEPT ![reqId] = contributorHash]
           ELSE UNCHANGED << requestToContributorHash, oracleVars >>
    /\ UNCHANGED << contributionCount, totalRewardPool, contributions,
                    royaltyDistributions, decryptedRoyalties,
                    requestToContributionId, depositSum, frontVars >>

claimRoyalty(contributorHash) ==
    claimRoyaltyGetting(contributorHash, requestCounter + 1)

\* revert reason of processRoyaltyPayment(requestId, ., proof), "ok" if none
PaymentOutcome(requestId, proofValid) ==
    LET contributorHash == requestToContributorHash[requestId]
    IN  IF contributorHash = 0 THEN "Invalid request"
        ELSE IF decrypt(royaltyDistributions[contributorHash].isClaimed)
             THEN "Already processed"
        ELSE IF ~checkSignatures(requestId, proofValid) THEN "Invalid proof"
        ELSE IF Len(Cleartexts(requestId)) < 1 THEN "Decode error"
        ELSE "ok"

\* mutant: a successful claim callback marks every key as claimed
processRoyaltyPaymentAllKeys(requestId, proofValid) ==
    LET outcome == PaymentOutcome(requestId, proofValid)
    IN  /\ IF outcome = "ok"
           THEN royaltyDistributions' =
                    [k \in Keys |->
                        [royaltyDistributions[k] EXCEPT !.isClaimed = asEbool(TRUE)]]
           ELSE UNCHANGED royaltyDistributions
        /\ UNCHANGED << contributionCount, totalRewardPool, contributions,
                        decryptedRoyalties, requestToContributionId,
                        requestToContributorHash, oracleVars, depositSum, frontVars >>

processRoyaltyPayment(requestId, proofValid) ==
    LET outcome == PaymentOutcome(requestId, proofValid)
        contributorHash == requestToContributorHash[requestId]
    IN  /\ IF outcome = "ok"
           THEN royaltyDistributions' =
                    [royaltyDistributions EXCEPT ![contributorHash].isClaimed =
                        asEbool(TRUE)]
           ELSE UNCHANGED royaltyDistributions
        /\ UNCHANGED << contributionCount, totalRewardPool, contributions,
                        decryptedRoyalties, requestToContributionId,
                        requestToContributorHash, oracleVars, depositSum, frontVars >>

Next ==
    \/ \E amount \in DepositAmounts : depositRewardPool(amount)
    \/ \E m \in MetricChoices, k \in Keys, t \in Timestamps :
          submitEncryptedContribution(m, k, t)
    \/ \E c \in ContribIds : calculateRoyaltyShare(c)
    \/ \E r \in ReqIds, p \in BOOLEAN : processRoyaltyCalculation(r, p)
    \/ \E k \in Keys : claimRoyalty(k)
    \/ \E r \in ReqIds, p \in BOOLEAN : processRoyaltyPayment(r, p)

Spec == Init /\ [][Next]_vars

\* ---------------------------------------- the formula over a range of inputs
\* One contribution whose metrics range over MetricValues (computeHours also
\* over a value whose product with 40 leaves the uint32 range) has been
\* submitted; requests, callbacks and deposits then apply the formula to it.
MetricValues == {0, 1, 60, 80, 100, 10000}
ComputeHoursValues == MetricValues \cup {107374183}

InitFormula ==
    /\ contributionCount = 1
    /\ totalRewardPool = 0
    /\ \E c \in ComputeHoursValues, d \in MetricValues, m \in MetricValues :
          contributions =
              [i \in ContribIds |->
                  IF i = 1
                  THEN [ id |-> 1,
                         encryptedComputeHours |-> asEuint32(c),
                         encryptedDataQuality |-> asEuint32(d),
                         encryptedModelImpact |-> asEuint32(m),
                         timestamp |-> 1,
                         contributorHash |-> 1 ]
                  ELSE NoContribution]
    /\ royaltyDistributions = [k \in Keys |-> NoDistribution]
    /\ decryptedRoyalties = [i \in ContribIds |-> NoRoyalty]
    /\ requestToContributionId = [r \in ReqIds |-> 0]
    /\ requestToContributorHash = [r \in ReqIds |-> 0]
    /\ requestCounter = 0
    /\ requestedHandles = [r \in ReqIds |-> << >>]
    /\ depositSum = 0
    /\ FrontInit

NextFormula ==
    \/ \E amount \in DepositAmounts : depositRewardPool(amount)
    \/ calculateRoyaltyShare(1)
    \/ \E r \in ReqIds, p \in BOOLEAN : processRoyaltyCalculation(r, p)

SpecFormula == InitFormula /\ [][NextFormula]_vars

\* ------------------------------------------------------ claim vocabulary
claimed(k) == decrypt(royaltyDistributions[k].isClaimed)
\* a Distribution has been written for k: its ciphertext fields are initialised
DistributionExists(k) == royaltyDistributions[k].encryptedShare.init
\* request id r was issued by calculateRoyaltyShare / by claimRoyalty
IsCalcRequest(r) == r <= requestCounter /\ Len(requestedHandles[r]) = 3
IsClaimRequest(r) == r <= requestCounter /\ Len(requestedHandles[r]) = 1
KeyOfCalc(r) == contributions[requestToContributionId[r]].contributorHash

\* C1: once a Distribution exists for a contributor key, no later step (in
\* particular no later calculation callback for that key) overwrites its stored
\* share or paymentAmount.
C1_DistributionNeverOverwritten ==
    [][ \A k \in Keys :
          DistributionExists(k) =>
            /\ royaltyDistributions'[k].encryptedShare =
                 royaltyDistributions[k].encryptedShare
            /\ royaltyDistributions'[k].encryptedPaymentAmount =
                 royaltyDistributions[k].encryptedPaymentAmount ]_vars

\* C2: once a callback for a request id has been processed successfully, every
\* later callback carrying the same request id fails, for the calculation
\* callback as for the claim callback.
C2_SingleConsumption ==
    [][ \A r \in ReqIds :
          /\ (processRoyaltyCalculation(r, TRUE) /\ CalculationOutcome(r, TRUE) = "ok")
                => (\A p \in BOOLEAN : CalculationOutcome(r, p) # "ok")'
          /\ (processRoyaltyPayment(r, TRUE) /\ PaymentOutcome(r, TRUE) = "ok")
                => (\A p \in BOOLEAN : PaymentOutcome(r, p) # "ok")' ]_vars

\* C3: the claimed flag of a key never goes back to false, and when two claim
\* requests for the same key are both pending with the key unclaimed, the
\* callback that arrives first (with a valid proof) settles and from then on the
\* other one is rejected with "Already processed".
C3_ExactlyOneSettlement ==
    /\ [] (\A k \in Keys : \A r1, r2 \in ReqIds :
             ( /\ r1 # r2
               /\ IsClaimRequest(r1) /\ IsClaimRequest(r2)
               /\ requestToContributorHash[r1] = k
               /\ requestToContributorHash[r2] = k
               /\ ~claimed(k) )
             => PaymentOutcome(r1, TRUE) = "ok")
    /\ [][ \A k \in Keys :
             /\ claimed(k) => claimed(k)'
             /\ (~claimed(k) /\ claimed(k)') =>
                  \A r \in ReqIds :
                     (IsClaimRequest(r) /\ requestToContributorHash[r] = k)
                        => (PaymentOutcome(r, TRUE) = "Already processed")' ]_vars

\* Supporting property: for the keys other than bytes32(0) the two-request
\* settlement statement holds.
C3_NonZeroKeys ==
    /\ [] (\A k \in Keys \ {0} : \A r1, r2 \in ReqIds :
             ( /\ r1 # r2
               /\ IsClaimRequest(r1) /\ IsClaimRequest(r2)
               /\ requestToContributorHash[r1] = k
               /\ requestToContributorHash[r2] = k
               /\ ~claimed(k) )
             => PaymentOutcome(r1, TRUE) = "ok")
    /\ [][ \A k \in Keys :
             /\ claimed(k) => claimed(k)'
             /\ (~claimed(k) /\ claimed(k)') =>
                  \A r \in ReqIds :
                     (IsClaimRequest(r) /\ requestToContributorHash[r] = k)
                        => (PaymentOutcome(r, TRUE) = "Already processed")' ]_vars

\* C4: a claimed flag that is true stays true, and an existing Distribution is
\* changed by no step other than the flip of its claimed flag from false to true.
C4_DistributionOnlyFlipsClaimed ==
    [][ \A k \in Keys :
          /\ claimed(k) => claimed(k)'
          /\ (DistributionExists(k) /\ royaltyDistributions'[k] # royaltyDistributions[k])
                => /\ ~claimed(k)
                   /\ royaltyDistributions'[k] =
                        [royaltyDistributions[k] EXCEPT !.isClaimed = asEbool(TRUE)] ]_vars

\* Supporting property: the claimed flag never reverses.
ClaimedNeverReverses ==
    [][ \A k \in Keys : claimed(k) => claimed(k)' ]_vars

\* C5: contribution ids are 1, 2, 3, ... in submission order: the record stored
\* under i carries id i exactly when i submissions have been made, the counter
\* moves only by +1, and it moves exactly when a record is stored under the new
\* counter value.
C5_SequentialIds ==
    /\ [] (\A i \in ContribIds :
             contributions[i].id = IF 1 <= i /\ i <= contributionCount THEN i ELSE 0)
    /\ [][ (contributionCount' # contributionCount \/ contributions' # contributions)
             => /\ contributionCount' = contributionCount + 1
                /\ contributions[contributionCount'] = NoContribution
                /\ contributions'[contributionCount'].id = contributionCount' ]_vars

C5_Witness ==
    /\ contributionCount = 2
    /\ contributions[1].id = 1
    /\ contributions[2].id = 2
    /\ requestCounter > 0

\* C6: a callback (calculation or claim) carrying a request id that was never
\* issued, or that was issued for the other kind of operation, is rejected with
\* "Invalid request" whatever its proof, and the step leaves every variable as
\* it was.
C6_UnknownRequestRejected ==
    /\ [] (\A r \in ReqIds : \A p \in BOOLEAN :
             /\ (r > requestCounter \/ IsClaimRequest(r))
                   => CalculationOutcome(r, p) = "Invalid request"
             /\ (r > requestCounter \/ IsCalcRequest(r))
                   => PaymentOutcome(r, p) = "Invalid request")
    /\ [][ \A r \in ReqIds : \A p \in BOOLEAN :
             /\ ((r > requestCounter \/ IsClaimRequest(r))
                   /\ processRoyaltyCalculation(r, p))
                   => UNCHANGED vars
             /\ ((r > requestCounter \/ IsCalcRequest(r))
                   /\ processRoyaltyPayment(r, p))
                   => UNCHANGED vars ]_vars

\* a request id is still unissued while a revealed Distribution and a pending
\* calculation request exist that a stray callback could have touched
C6_Witness ==
    /\ requestCounter = 1
    /\ IsCalcRequest(1)
    /\ requestToContributionId[1] = 1
    /\ decryptedRoyalties[1].isRevealed
    /\ DistributionExists(contributions[1].contributorHash)
    /\ totalRewardPool > 0

C8_ShareAndPaymentFormula ==
    [][ \A r \in ReqIds :
          (processRoyaltyCalculation(r, TRUE) /\ CalculationOutcome(r, TRUE) = "ok")
          => LET clear == Cleartexts(r)
                 cid == requestToContributionId[r]
                 share == (clear[1] * 40 + clear[2] * 35 + clear[3] * 25) \div 100
                 payment == (totalRewardPool * share) \div 10000
             IN  /\ decryptedRoyalties'[cid].sharePercentage = share
                 /\ decryptedRoyalties'[cid].paymentAmount = Wide(payment)
                 /\ decryptedRoyalties'[cid].isRevealed
                 /\ royaltyDistributions'[KeyOfCalc(r)].encryptedShare =
                      asEuint32(share) ]_vars

\* metrics (100, 80, 60) revealed against a pool of 1000: share 83, payment 8
C8_Witness ==
    /\ decrypt(contributions[1].encryptedComputeHours) = 100
    /\ decrypt(contributions[1].encryptedDataQuality) = 80
    /\ decrypt(contributions[1].encryptedModelImpact) = 60
    /\ totalRewardPool = 1000
    /\ decryptedRoyalties[1] =
         [sharePercentage |-> 83, paymentAmount |-> Wide(8), isRevealed |-> TRUE]
    /\ royaltyDistributions[1].encryptedShare = asEuint32(83)

\* C9: a calculation callback with a valid proof whose metrics are all zero is
\* not rejected for that, and a successful callback whose metrics are all zero or
\* whose pool is zero writes the Distribution (payment 0, claimed = false; share
\* 0 for zero metrics) and the RevealedRoyalty entry with revealed = true.
C9_ZeroIsSettled ==
    /\ [] (\A r \in ReqIds :
             ( /\ IsCalcRequest(r)
               /\ requestToContributionId[r] # 0
               /\ ~claimed(KeyOfCalc(r))
               /\ Cleartexts(r) = <<0, 0, 0>> )
             => CalculationOutcome(r, TRUE) = "ok")
    /\ [][ \A r \in ReqIds :
             ( /\ processRoyaltyCalculation(r, TRUE)
               /\ CalculationOutcome(r, TRUE) = "ok"
               /\ (Cleartexts(r) = <<0, 0, 0>> \/ totalRewardPool = 0) )
             => LET cid == requestToContributionId[r]
                    dist == royaltyDistributions'[KeyOfCalc(r)]
                IN  /\ decryptedRoyalties'[cid].isRevealed
                    /\ decryptedRoyalties'[cid].paymentAmount = Wide(0)
                    /\ dist.encryptedShare.init
                    /\ dist.encryptedPaymentAmount = asEuint32(Wide(0))
                    /\ dist.isClaimed = asEbool(FALSE)
                    /\ (Cleartexts(r) = <<0, 0, 0>>
                          => /\ decryptedRoyalties'[cid].sharePercentage = 0
                             /\ dist.encryptedShare = asEuint32(0)) ]_vars

\* an all-zero contribution revealed against a pool of 1000
C9_Witness ==
    \E i \in ContribIds :
        /\ contributions[i].id = i /\ i # 0
        /\ contributions[i].encryptedComputeHours = asEuint32(0)
        /\ contributions[i].encryptedDataQuality = asEuint32(0)
        /\ contributions[i].encryptedModelImpact = asEuint32(0)
        /\ totalRewardPool = 1000
        /\ decryptedRoyalties[i] =
             [sharePercentage |-> 0, paymentAmount |-> Wide(0), isRevealed |-> TRUE]
        /\ royaltyDistributions[contributions[i].contributorHash] =
             [ encryptedShare |-> asEuint32(0),
               encryptedPaymentAmount |-> asEuint32(Wide(0)),
               isClaimed |-> asEbool(FALSE) ]

\* C10: the pool equals the sum of the amounts deposited so far (it started at
\* 0), and no step decreases it.
C10_PoolIsSumOfDeposits ==
    /\ [] (totalRewardPool = depositSum)
    /\ [][ totalRewardPool' >= totalRewardPool ]_vars

\* a deposit has landed between a calculation request, its callback and a claim
\* request
C10_Witness ==
    /\ totalRewardPool = 1000
    /\ \E r1, r2 \in ReqIds :
          /\ IsCalcRequest(r1) /\ IsClaimRequest(r2)
          /\ requestToContributionId[r1] # 0
          /\ decryptedRoyalties[requestToContributionId[r1]].isRevealed
          /\ decryptedRoyalties[requestToContributionId[r1]].paymentAmount = Wide(0)

\* C11: a calculation request is rejected, issuing no oracle request and
\* registering nothing, when the contribution does not exist (id 0 or id above
\* the counter) or when a Distribution already exists for the contribution's key.
C11_CalculationRequestGuarded ==
    [][ \A c \in ContribIds :
          ( /\ calculateRoyaltyShare(c)
            /\ \/ c = 0
               \/ c > contributionCount
               \/ DistributionExists(contributions[c].contributorHash) )
          => UNCHANGED vars ]_vars

\* C12: a claim request is rejected, registering nothing, when no Distribution
\* exists for the key or when the key's claimed flag is already true.
C12_ClaimRequestGuarded ==
    [][ \A k \in Keys :
          (claimRoyalty(k) /\ (~DistributionExists(k) \/ claimed(k)))
          => UNCHANGED vars ]_vars

\* Supporting property: the "Already claimed" half of the guard is in place.
C12_AlreadyClaimedRejected ==
    /\ [] (\A k \in Keys : claimed(k) => ClaimOutcome(k) = "Already claimed")
    /\ [][ \A k \in Keys : (claimRoyalty(k) /\ claimed(k)) => UNCHANGED vars ]_vars

\* ------------------------------------------------------ getDecryptedRoyalty
\* Mutation of getDecryptedRoyalty: reports a contribution as revealed as soon
\* as it has been submitted.
getDecryptedRoyaltySubmitted(contributionId) ==
    LET r == decryptedRoyalties[contributionId]
    IN  << r.sharePercentage, r.paymentAmount,
           r.isRevealed \/ contributions[contributionId].id # 0 >>

\* The view function: the three fields of decryptedRoyalties[contributionId].
getDecryptedRoyalty(contributionId) ==
    LET r == decryptedRoyalties[contributionId]
    IN  << r.sharePercentage, r.paymentAmount, r.isRevealed >>

\* C13: the getter returns (0, 0, false) for every contribution id whose
\* calculation callback has not succeeded (in particular for every id no
\* request was ever registered for), it reports revealed = true otherwise, and
\* what it returns for an id changes only in the step of a successful
\* calculation callback for that id, which leaves it reporting revealed = true.
C13_GetterDefaultUntilRevealed ==
    /\ [] (\A c \in ContribIds :
             /\ (\A r \in ReqIds : requestToContributionId[r] # c)
                   => getDecryptedRoyalty(c) = << 0, Wide(0), FALSE >>
             /\ ~getDecryptedRoyalty(c)[3]
                   => getDecryptedRoyalty(c) = << 0, Wide(0), FALSE >>)
    /\ [][ \A c \in ContribIds :
             (getDecryptedRoyalty(c))' # getDecryptedRoyalty(c)
             => /\ \E r \in ReqIds :
                      /\ requestToContributionId[r] = c
                      /\ processRoyaltyCalculation(r, TRUE)
                      /\ CalculationOutcome(r, TRUE) = "ok"
                /\ (getDecryptedRoyalty(c))'[3] ]_vars

\* one contribution is revealed with a non-zero payment while another one, with
\* a registered calculation request, still reads as the default
C13_Witness ==
    \E c1, c2 \in ContribIds :
        /\ contributions[c1].id # 0 /\ contributions[c2].id # 0
        /\ getDecryptedRoyalty(c1)[3]
        /\ getDecryptedRoyalty(c1)[2] # Wide(0)
        /\ getDecryptedRoyalty(c2) = << 0, Wide(0), FALSE >>
        /\ \E r \in ReqIds : requestToContributionId[r] = c2

\* C14: the contribution store is append-only and its records are immutable:
\* slot 0 is never written, the counter never decreases, and once a record is
\* stored under an id no later step of any operation changes or deletes it.
C14_ContributionsImmutable ==
    /\ [] (contributions[0] = NoContribution)
    /\ [][ /\ contributionCount' >= contributionCount
           /\ \A i \in ContribIds :
                contributions[i] # NoContribution
                   => contributions'[i] = contributions[i] ]_vars

\* a second contribution was stored, and the first one has been through a
\* calculation request, its callback, a claim request and the claim callback
C14_Witness ==
    /\ contributionCount = 2
    /\ contributions[1] # NoContribution
    /\ contributions[2] # NoContribution
    /\ decryptedRoyalties[1].isRevealed
    /\ claimed(contributions[1].contributorHash)

\* ------------------------------------------------- metrics and stored state
\* the metric triples a contribution of SpecFormula can carry
MetricTriples ==
    { << c, d, m >> : c \in ComputeHoursValues, d \in MetricValues, m \in MetricValues }

\* C15: the stored state depends on the plaintext metrics only through the
\* share: in every successful calculation callback, replacing the revealed
\* metrics by any other triple that yields the same share would have stored
\* exactly the records that were stored, nothing else is written in that step,
\* and no other step writes the Distribution or the revealed entry at all.
C15_StateDependsOnShareOnly ==
    [][ /\ \A r \in ReqIds :
             (processRoyaltyCalculation(r, TRUE) /\ CalculationOutcome(r, TRUE) = "ok")
             => LET clear == Cleartexts(r)
                    cid == requestToContributionId[r]
                IN  \A share \in {calculateSharePercentage(clear[1], clear[2], clear[3])} :
                    \A other \in MetricTriples :
                       ( /\ ~ShareOverflows(other[1], other[2], other[3])
                         /\ calculateSharePercentage(other[1], other[2], other[3]) = share )
                       => /\ royaltyDistributions' =
                               [royaltyDistributions EXCEPT ![KeyOfCalc(r)] =
                                  CalculationWrites(other, totalRewardPool).distribution]
                          /\ decryptedRoyalties' =
                               [decryptedRoyalties EXCEPT ![cid] =
                                  CalculationWrites(other, totalRewardPool).revealed]
                          /\ UNCHANGED << contributionCount, totalRewardPool,
                                          requestToContributionId,
                                          requestToContributorHash >>
        /\ (royaltyDistributions' # royaltyDistributions
              \/ decryptedRoyalties' # decryptedRoyalties)
             => \E r \in ReqIds :
                   /\ processRoyaltyCalculation(r, TRUE)
                   /\ CalculationOutcome(r, TRUE) = "ok" ]_vars

\* a contribution with metrics (1, 0, 0), which share 0 with eight other
\* triples of the range, has been revealed against a pool of 1000
C15_Witness ==
    /\ Cleartexts(1) = << 1, 0, 0 >>
    /\ totalRewardPool = 1000
    /\ decryptedRoyalties[1] =
         [sharePercentage |-> 0, paymentAmount |-> Wide(0), isRevealed |-> TRUE]
    /\ DistributionExists(1)

\* C16: the pending entry of a request id is removed by the callback that
\* processes it, successful or not: after a successful callback step the id is
\* no longer registered, and a rejected callback for a registered id (a step
\* that leaves every variable as it was, so that the state after it is the
\* state before it) leaves the id unregistered as well.
C16_PendingRemovedByCallback ==
    /\ [] (\A r \in ReqIds : \A p \in BOOLEAN :
             /\ (requestToContributionId[r] # 0
                   /\ CalculationOutcome(r, p) \notin {"ok", "Invalid request"})
                   => requestToContributionId[r] = 0
             /\ (requestToContributorHash[r] # 0
                   /\ PaymentOutcome(r, p) \notin {"ok", "Invalid request"})
                   => requestToContributorHash[r] = 0)
    /\ [][ \A r \in ReqIds :
             /\ (processRoyaltyCalculation(r, TRUE) /\ CalculationOutcome(r, TRUE) = "ok")
                   => requestToContributionId'[r] = 0
             /\ (processRoyaltyPayment(r, TRUE) /\ PaymentOutcome(r, TRUE) = "ok")
                   => requestToContributorHash'[r] = 0 ]_vars

\* ------------------------------------------- request ids that are not fresh
\* The contract takes the request id from FHE.requestDecryption as it comes.
\* Here the library may answer with any id, one it has handed out before
\* included.
NextOracle ==
    \/ \E m \in MetricChoices, k \in Keys, t \in Timestamps :
          submitEncryptedContribution(m, k, t)
    \/ \E c \in ContribIds, r \in ReqIds : calculateRoyaltyShareGetting(c, r)
    \/ \E r \in ReqIds, p \in BOOLEAN : processRoyaltyCalculation(r, p)
    \/ \E k \in Keys, r \in ReqIds : claimRoyaltyGetting(k, r)
    \/ \E r \in ReqIds, p \in BOOLEAN : processRoyaltyPayment(r, p)

SpecOracle == Init /\ [][NextOracle]_vars

\* C17: a request id is registered for at most one pending request across the
\* two kinds, and registering an id that is already registered fails: a
\* registered entry is never replaced by another context.
C17_NoDuplicateRegistration ==
    /\ [] (\A r \in ReqIds :
             ~(requestToContributionId[r] # 0 /\ requestToContributorHash[r] # 0))
    /\ [][ \A r \in ReqIds :
             /\ requestToContributionId[r] # 0
                   => requestToContributionId'[r] \in {requestToContributionId[r], 0}
             /\ requestToContributorHash[r] # 0
                   => requestToContributorHash'[r] \in {requestToContributorHash[r], 0} ]_vars

\* Supporting property: while the library hands out fresh ids (Spec), an id is
\* registered for one kind only and its entry never changes.
C17_FreshIdsRegisteredOnce ==
    /\ [] (\A r \in ReqIds :
             ~(requestToContributionId[r] # 0 /\ requestToContributorHash[r] # 0))
    /\ [][ \A r \in ReqIds :
             /\ requestToContributionId[r] # 0
                   => requestToContributionId'[r] = requestToContributionId[r]
             /\ requestToContributorHash[r] # 0
                   => requestToContributorHash'[r] = requestToContributorHash[r] ]_vars

\* --------------------------------------- deposits around a pending request
\* One contribution (metrics over the range of SpecFormula) has been submitted
\* and calculateRoyaltyShare(1) has been called, all while the pool was empty;
\* deposits of half the full amount and callbacks follow.
HalfDeposits == {500}

InitPending ==
    /\ contributionCount = 1
    /\ totalRewardPool = 0
    /\ \E c \in ComputeHoursValues, d \in MetricValues, m \in MetricValues :
          /\ contributions =
               [i \in ContribIds |->
                   IF i = 1
                   THEN [ id |-> 1,
                          encryptedComputeHours |-> asEuint32(c),
                          encryptedDataQuality |-> asEuint32(d),
                          encryptedModelImpact |-> asEuint32(m),
                          timestamp |-> 1,
                          contributorHash |-> 1 ]
                   ELSE NoContribution]
          /\ requestedHandles =
               [r \in ReqIds |->
                   IF r = 1
                   THEN << asEuint32(c), asEuint32(d), asEuint32(m) >>
                   ELSE << >>]
    /\ royaltyDistributions = [k \in Keys |-> NoDistribution]
    /\ decryptedRoyalties = [i \in ContribIds |-> NoRoyalty]
    /\ requestToContributionId = [r \in ReqIds |-> IF r = 1 THEN 1 ELSE 0]
    /\ requestToContributorHash = [r \in ReqIds |-> 0]
    /\ requestCounter = 1
    /\ depositSum = 0
    /\ FrontInit

NextPending ==
    \/ \E amount \in HalfDeposits : depositRewardPool(amount)
    \/ \E r \in ReqIds, p \in BOOLEAN : processRoyaltyCalculation(r, p)

SpecPending == InitPending /\ [][NextPending]_vars

\* C18: the payment is taken from the pool as it stands in the callback step,
\* whatever was deposited since the request (issued against an empty pool
\* here): a successful callback records floor(pool * share / 10000) for the
\* pool of that step, and a step that changes the pool changes no recorded
\* payment, neither the revealed one nor the Distribution's.
C18_PaymentUsesPoolAtCallback ==
    [][ /\ \A r \in ReqIds :
             (processRoyaltyCalculation(r, TRUE) /\ CalculationOutcome(r, TRUE) = "ok")
             => LET cid == requestToContributionId[r]
                    share == decryptedRoyalties'[cid].sharePercentage
                    payment == (totalRewardPool * share) \div 10000
                IN  /\ decryptedRoyalties'[cid].paymentAmount = Wide(payment)
                    /\ royaltyDistributions'[KeyOfCalc(r)].encryptedPaymentAmount =
                         asEuint32(Wide(payment))
        /\ totalRewardPool' # totalRewardPool
             => /\ decryptedRoyalties' = decryptedRoyalties
                /\ royaltyDistributions' = royaltyDistributions ]_vars

\* requested against an empty pool, revealed after a first deposit of 500
\* (share 83, payment 4), and a second deposit has landed since
C18_Witness ==
    /\ Cleartexts(1) = << 100, 80, 60 >>
    /\ totalRewardPool = 1000
    /\ decryptedRoyalties[1] =
         [sharePercentage |-> 83, paymentAmount |-> Wide(4), isRevealed |-> TRUE]
    /\ royaltyDistributions[1].encryptedPaymentAmount = asEuint32(Wide(4))

\* C19: revealed is terminal: once the entry of a contribution id has
\* revealed = true, no later step (deposit, request, callback, replayed
\* callback, claim) changes its sharePercentage or its paymentAmount.
C19_RevealedIsTerminal ==
    [][ \A c \in ContribIds :
          decryptedRoyalties[c].isRevealed
          => /\ decryptedRoyalties'[c].sharePercentage =
                  decryptedRoyalties[c].sharePercentage
             /\ decryptedRoyalties'[c].paymentAmount =
                  decryptedRoyalties[c].paymentAmount ]_vars

\* the contribution c belongs to key k
BelongsTo(c, k) == contributions[c].id # 0 /\ contributions[c].contributorHash = k

\* every key but a keeps its Distribution, and every contribution of a key
\* other than a keeps its revealed entry
OnlyKeyTouched(a) ==
    \A b \in Keys \ {a} :
        /\ royaltyDistributions'[b] = royaltyDistributions[b]
        /\ \A c \in ContribIds :
              BelongsTo(c, b) => decryptedRoyalties'[c] = decryptedRoyalties[c]

\* C20: operations on different keys are independent: a calculation request
\* or callback for a contribution of key A, and a claim request or callback for
\* key A, change neither the Distribution of any other key nor the revealed
\* entry of a contribution that belongs to another key.
C20_KeysIndependent ==
    [][ (royaltyDistributions' # royaltyDistributions
           \/ decryptedRoyalties' # decryptedRoyalties)
        => /\ \A c \in ContribIds :
                calculateRoyaltyShare(c)
                   => OnlyKeyTouched(contributions[c].contributorHash)
           /\ \A r \in ReqIds, p \in BOOLEAN :
                processRoyaltyCalculation(r, p) => OnlyKeyTouched(KeyOfCalc(r))
           /\ \A k \in Keys :
                claimRoyalty(k) => OnlyKeyTouched(k)
           /\ \A r \in ReqIds, p \in BOOLEAN :
                processRoyaltyPayment(r, p)
                   => OnlyKeyTouched(requestToContributorHash[r]) ]_vars

\* two contributions of different keys are both revealed, the first against
\* the empty pool and the second after a deposit, each with its own payment
\* and its own Distribution
C20_Witness ==
    /\ BelongsTo(1, 0) /\ BelongsTo(2, 1)
    /\ decryptedRoyalties[1] =
         [sharePercentage |-> 83, paymentAmount |-> Wide(0), isRevealed |-> TRUE]
    /\ decryptedRoyalties[2] =
         [sharePercentage |-> 83, paymentAmount |-> Wide(8), isRevealed |-> TRUE]
    /\ royaltyDistributions[0].encryptedPaymentAmount = asEuint32(Wide(0))
    /\ royaltyDistributions[1].encryptedPaymentAmount = asEuint32(Wide(8))

\* C21: a key is claimed only after a reveal: in every state, a key whose
\* claimed flag is true has a Distribution (written by an earlier successful
\* calculation callback), and no step sets the flag of a key without one.
C21_ClaimedOnlyAfterReveal ==
    /\ [] (\A k \in Keys : claimed(k) => DistributionExists(k))
    /\ [][ \A k \in Keys :
             (~claimed(k) /\ claimed(k)') => DistributionExists(k) ]_vars

\* C22: in both callbacks the proof is verified right after the registry
\* lookup and before the key's state is looked at: a callback with a
\* registered request id and a proof that does not verify is rejected with
\* "Invalid proof", whether or not the key is already distributed or claimed.
C22_ProofCheckedBeforeKeyState ==
    \A r \in ReqIds :
        /\ requestToContributionId[r] # 0
              => CalculationOutcome(r, FALSE) = "Invalid proof"
        /\ requestToContributorHash[r] # 0
              => PaymentOutcome(r, FALSE) = "Invalid proof"

\* C23: a pending request whose callback has not arrived can be expired: in
\* every state, for every registered request id, a step that removes its
\* registration is possible.
C23_StaleRequestCanBeExpired ==
    \A r \in ReqIds :
        /\ requestToContributionId[r] # 0
              => ENABLED (Next /\ requestToContributionId'[r] = 0)
        /\ requestToContributorHash[r] # 0
              => ENABLED (Next /\ requestToContributorHash'[r] = 0)

\* Supporting property: a registration is permanent; no step of any operation
\* removes or changes the entry of a registered request id.
C23_RegistrationIsPermanent ==
    [][ \A r \in ReqIds :
          /\ requestToContributionId[r] # 0
                => requestToContributionId'[r] = requestToContributionId[r]
          /\ requestToContributorHash[r] # 0
                => requestToContributorHash'[r] = requestToContributorHash[r] ]_vars

\* ------------------------------------------------------------ a fair oracle
\* The oracle answers every issued request: a callback with a valid proof that
\* would change the state is eventually delivered.
FairOracle ==
    \A r \in ReqIds :
        /\ WF_vars(processRoyaltyCalculation(r, TRUE))
        /\ WF_vars(processRoyaltyPayment(r, TRUE))

SpecFair == Init /\ [][Next]_vars /\ FairOracle

\* request r was issued by calculateRoyaltyShare(c) when contribution c existed
CalcIssuedOnExisting(r, c) ==
    /\ IsCalcRequest(r)
    /\ requestToContributionId[r] = c
    /\ requestedHandles[r][1].init

\* request r was issued by claimRoyalty(k) when k had a Distribution
ClaimIssuedOnDistribution(r, k) ==
    /\ IsClaimRequest(r)
    /\ requestToContributorHash[r] = k
    /\ requestedHandles[r][1].init

\* C24: under a fair oracle every calculation request issued on an existing
\* contribution leads to a Distribution for the contribution's key, and every
\* claim request issued on an unclaimed Distribution leads to the key being
\* claimed.
C24_FairOracleSettles ==
    /\ \A r \in ReqIds : \A c \in ContribIds \ {0} :
          CalcIssuedOnExisting(r, c)
             ~> DistributionExists(contributions[c].contributorHash)
    /\ \A r \in ReqIds : \A k \in Keys :
          ClaimIssuedOnDistribution(r, k) ~> claimed(k)

\* ------------------------------------------------- pools of ordinary size
\* One contribution has been submitted with metrics that are not limited to
\* basis points, and the pool holds up to two gwei; calculation requests and
\* callbacks follow.
WideMetricValues == {0, 100, 1000000}
WidePools == {0, 1000, 2000000000}

InitWide ==
    /\ contributionCount = 1
    /\ totalRewardPool \in WidePools
    /\ depositSum = totalRewardPool
    /\ FrontInit
    /\ \E c \in WideMetricValues, d \in WideMetricValues, m \in WideMetricValues :
          contributions =
              [i \in ContribIds |->
                  IF i = 1
                  THEN [ id |-> 1,
                         encryptedComputeHours |-> asEuint32(c),
                         encryptedDataQuality |-> asEuint32(d),
                         encryptedModelImpact |-> asEuint32(m),
                         timestamp |-> 1,
                         contributorHash |-> 1 ]
                  ELSE NoContribution]
    /\ royaltyDistributions = [k \in Keys |-> NoDistribution]
    /\ decryptedRoyalties = [i \in ContribIds |-> NoRoyalty]
    /\ requestToContributionId = [r \in ReqIds |-> 0]
    /\ requestToContributorHash = [r \in ReqIds |-> 0]
    /\ requestCounter = 0
    /\ requestedHandles = [r \in ReqIds |-> << >>]

NextWide ==
    \/ calculateRoyaltyShare(1)
    \/ \E r \in ReqIds, p \in BOOLEAN : processRoyaltyCalculation(r, p)

SpecWide == InitWide /\ [][NextWide]_vars

\* C25: the payment a successful calculation callback stores in the
\* Distribution is the payment it stores in the revealed entry, for every pool
\* and share, payments of 2^32 and more included.
C25_DistributionPaymentIsRevealedPayment ==
    [][ \A r \in ReqIds :
          (processRoyaltyCalculation(r, TRUE) /\ CalculationOutcome(r, TRUE) = "ok")
          => decrypt(royaltyDistributions'[KeyOfCalc(r)].encryptedPaymentAmount) =
               decryptedRoyalties'[requestToContributionId[r]].paymentAmount ]_vars

\* Supporting property: the two payments agree in their low 32 bits, and so
\* they are equal whenever the revealed payment is below 2^32.
C25_PaymentsAgreeInLow32Bits ==
    [][ \A r \in ReqIds :
          (processRoyaltyCalculation(r, TRUE) /\ CalculationOutcome(r, TRUE) = "ok")
          => LET stored == decrypt(royaltyDistributions'[KeyOfCalc(r)].encryptedPaymentAmount)
                 revealed == decryptedRoyalties'[requestToContributionId[r]].paymentAmount
             IN  /\ stored[1] = revealed[1] /\ stored[2] = revealed[2]
                 /\ stored[3] = 0 /\ stored[4] = 0 ]_vars

\* the four-limb number w is at most the number n
WideAtMost(w, n) ==
    /\ w[3] = 0 /\ w[4] = 0
    /\ w[2] <= n \div Limb
    /\ (w[2] < n \div Limb \/ w[1] <= n % Limb)

\* Supporting property: a successful callback over metrics that are each at
\* most 10000 records a share of at most 10000 and a payment of at most the
\* pool of that step.
ShareAndPaymentBounded ==
    [][ \A r \in ReqIds :
          ( /\ processRoyaltyCalculation(r, TRUE)
            /\ CalculationOutcome(r, TRUE) = "ok"
            /\ \A i \in 1..3 : Cleartexts(r)[i] <= 10000 )
          => LET cid == requestToContributionId[r]
             IN  /\ decryptedRoyalties'[cid].sharePercentage <= 10000
                 /\ WideAtMost(decryptedRoyalties'[cid].paymentAmount,
                               totalRewardPool) ]_vars

\* C26: the share is a weighted average in basis points: metrics of at most
\* 10000 each give a share of at most 10000 and a payment of at most the pool
\* read in the callback; and for every metric triple that fits 32 bits, a
\* callback with a valid proof does not fail on an arithmetic overflow.
C26_BoundedShareAndNoOverflow ==
    /\ ShareAndPaymentBounded
    /\ [] (\A r \in ReqIds :
             IsCalcRequest(r) => CalculationOutcome(r, TRUE) # "Panic")

\* ------------------------------------------------- front-end operations
\* Each async function of App.tsx runs as a sequence of steps, one per awaited
\* call on the store; steps of different clients interleave. A stored record
\* is followed by its status, which is all verify and payout change.
chainVars == << contractVars, oracleVars, depositSum >>

\* submitContribution up to its first setData: a new id is generated and the
\* record is stored with status "pending"
submitContribution(c, id) ==
    /\ clientOp[c].pc = "idle"
    /\ storedData[id] = "none"
    /\ storedData' = [storedData EXCEPT ![id] = "pending"]
    /\ clientOp' = [clientOp EXCEPT ![c] =
                       [Idle EXCEPT !.pc = "submit_getKeys", !.id = id]]
    /\ UNCHANGED << contributionKeys, clientList, chainVars >>

\* submitContribution: getData("contribution_keys")
submitContributionGetKeys(c) ==
    /\ clientOp[c].pc = "submit_getKeys"
    /\ clientOp' = [clientOp EXCEPT ![c].pc = "submit_setKeys",
                                    ![c].keys = contributionKeys]
    /\ UNCHANGED << storedData, contributionKeys, clientList, chainVars >>

\* submitContribution: keys.push(contributionId); setData("contribution_keys")
submitContributionSetKeys(c) ==
    /\ clientOp[c].pc = "submit_setKeys"
    /\ contributionKeys' = Append(clientOp[c].keys, clientOp[c].id)
    /\ clientOp' = [clientOp EXCEPT ![c].pc = "load", ![c].keys = << >>]
    /\ UNCHANGED << storedData, clientList, chainVars >>

\* loadContributions, on mount or refresh or at the end of another function:
\* getData("contribution_keys"); with no key the empty list is set at once
loadContributions(c) ==
    /\ clientOp[c].pc \in {"idle", "load"}
    /\ IF contributionKeys = << >>
       THEN /\ clientList' = [clientList EXCEPT ![c] = NoList]
            /\ clientOp' = [clientOp EXCEPT ![c] = Idle]
       ELSE /\ clientOp' = [clientOp EXCEPT ![c] =
                              [Idle EXCEPT !.pc = "load_records",
                                           !.keys = contributionKeys]]
            /\ UNCHANGED clientList
    /\ UNCHANGED << storedData, contributionKeys, chainVars >>

\* loadContributions: getData("contribution_<key>") for the next key; after
\* the last key the list is set
loadContributionsRecord(c) ==
    /\ clientOp[c].pc = "load_records"
    /\ LET key == Head(clientOp[c].keys)
           rest == Tail(clientOp[c].keys)
           list == IF storedData[key] = "none"
                   THEN clientOp[c].list
                   ELSE [clientOp[c].list EXCEPT ![key] = storedData[key]]
       IN  IF rest = << >>
           THEN /\ clientList' = [clientList EXCEPT ![c] = list]
                /\ clientOp' = [clientOp EXCEPT ![c] = Idle]
           ELSE /\ clientOp' = [clientOp EXCEPT ![c].keys = rest, ![c].list = list]
                /\ UNCHANGED clientList
    /\ UNCHANGED << storedData, contributionKeys, chainVars >>

\* the Verify button, shown for a contribution the client's list has as "pending"
verifyContribution(c, id) ==
    /\ clientOp[c].pc = "idle"
    /\ clientList[c][id] = "pending"
    /\ clientOp' = [clientOp EXCEPT ![c] = [Idle EXCEPT !.pc = "verify_get", !.id = id]]
    /\ UNCHANGED << storedData, contributionKeys, clientList, chainVars >>

\* verifyContribution: getData of the record; "Contribution not found" ends it
verifyContributionGet(c) ==
    /\ clientOp[c].pc = "verify_get"
    /\ clientOp' = [clientOp EXCEPT ![c] =
                       IF storedData[clientOp[c].id] = "none"
                       THEN Idle
                       ELSE [clientOp[c] EXCEPT !.pc = "verify_set"]]
    /\ UNCHANGED << storedData, contributionKeys, clientList, chainVars >>

\* verifyContribution: setData of the record with status "verified"
verifyContributionSet(c) ==
    /\ clientOp[c].pc = "verify_set"
    /\ storedData' = [storedData EXCEPT ![clientOp[c].id] = "verified"]
    /\ clientOp' = [clientOp EXCEPT ![c] = [Idle EXCEPT !.pc = "load"]]
    /\ UNCHANGED << contributionKeys, clientList, chainVars >>

\* the Payout button, shown for a contribution the client's list has as "verified"
payoutContribution(c, id) ==
    /\ clientOp[c].pc = "idle"
    /\ clientList[c][id] = "verified"
    /\ clientOp' = [clientOp EXCEPT ![c] = [Idle EXCEPT !.pc = "payout_get", !.id = id]]
    /\ UNCHANGED << storedData, contributionKeys, clientList, chainVars >>

\* payoutContribution: getData of the record; "Contribution not found" ends it
payoutContributionGet(c) ==
    /\ clientOp[c].pc = "payout_get"
    /\ clientOp' = [clientOp EXCEPT ![c] =
                       IF storedData[clientOp[c].id] = "none"
                       THEN Idle
                       ELSE [clientOp[c] EXCEPT !.pc = "payout_set"]]
    /\ UNCHANGED << storedData, contributionKeys, clientList, chainVars >>

\* payoutContribution: setData of the record with status "paid"
payoutContributionSet(c) ==
    /\ clientOp[c].pc = "payout_set"
    /\ storedData' = [storedData EXCEPT ![clientOp[c].id] = "paid"]
    /\ clientOp' = [clientOp EXCEPT ![c] = [Idle EXCEPT !.pc = "load"]]
    /\ UNCHANGED << contributionKeys, clientList, chainVars >>

NextFront ==
    \/ \E c \in Clients, id \in FrontIds : submitContribution(c, id)
    \/ \E c \in Clients : submitContributionGetKeys(c)
    \/ \E c \in Clients : submitContributionSetKeys(c)
    \/ \E c \in Clients : loadContributions(c)
    \/ \E c \in Clients : loadContributionsRecord(c)
    \/ \E c \in Clients, id \in FrontIds : verifyContribution(c, id)
    \/ \E c \in Clients : verifyContributionGet(c)
    \/ \E c \in Clients : verifyContributionSet(c)
    \/ \E c \in Clients, id \in FrontIds : payoutContribution(c, id)
    \/ \E c \in Clients : payoutContributionGet(c)
    \/ \E c \in Clients : payoutContributionSet(c)

SpecFront == Init /\ [][NextFront]_vars

\* C27: the stored status of a contribution only moves forward: a record
\* stored as "paid" stays "paid", one stored as "verified" does not return to
\* "pending", and the write of payoutContribution lands only on a record whose
\* stored status is "verified".
C27_StatusOnlyMovesForward ==
    [][ \A i \in FrontIds :
          /\ storedData[i] = "paid" => storedData'[i] = "paid"
          /\ storedData[i] = "verified" => storedData'[i] \in {"verified", "paid"}
          /\ \A c \in Clients :
                (payoutContributionSet(c) /\ clientOp[c].id = i)
                   => storedData[i] = "verified" ]_vars

\* Supporting property: no write ever returns a record to "pending" or removes it.
C27_NeverBackToPending ==
    [][ \A i \in FrontIds :
          storedData[i] \in {"verified", "paid"}
             => storedData'[i] \in {"verified", "paid"} ]_vars

\* C28: once every submitContribution has completed (no client is running
\* anything), the key list holds the id of every stored record exactly once.
C28_KeyListHoldsEveryRecordOnce ==
    (\A c \in Clients : clientOp[c].pc = "idle")
    => \A i \in FrontIds :
          storedData[i] # "none"
             => Cardinality({ n \in DOMAIN contributionKeys :
                                 contributionKeys[n] = i }) = 1
====
